---- MODULE Spec2Model ----
(***************************************************************************)
(* Model of the comparison engine of html-compare-rs (src/src/lib.rs).     *)
(*                                                                         *)
(* A parsed document is a tree of nodes.  Below the root element the HTML  *)
(* parser only produces Element, Text and Comment nodes (a doctype or a    *)
(* processing instruction inside an element is dropped or turned into a    *)
(* comment), so these are the three node kinds of the model.  A string is  *)
(* a sequence of one-character strings, so that trim() is computed.        *)
(*                                                                         *)
(* options is the comparer's configuration; expected, actual, result and   *)
(* checks belong to one call of compare taken as a whole (previous is the  *)
(* result of an earlier call on the same input).  calls holds the calls of *)
(* compare that run concurrently on the comparer, each with its documents, *)
(* its stack of invocations of compare_element_refs and its result, taken  *)
(* one step of the code at a time.                                         *)
(***************************************************************************)
EXTENDS Integers, Sequences, FiniteSets, TLC

VARIABLES options, expected, actual, result, previous, checks, calls

vars == <<options, expected, actual, result, previous, checks, calls>>

----------------------------------------------------------------------------
(* Strings                                                                 *)

Whitespace == {" ", "\t", "\n"}

RECURSIVE TrimStart(_)
TrimStart(s) ==
    IF s = <<>> THEN s
    ELSE IF Head(s) \in Whitespace THEN TrimStart(Tail(s)) ELSE s

RECURSIVE TrimEnd(_)
TrimEnd(s) ==
    IF s = <<>> THEN s
    ELSE IF s[Len(s)] \in Whitespace THEN TrimEnd(SubSeq(s, 1, Len(s) - 1)) ELSE s

\* Mutant of Trim: the whitespace inside the string is removed too.
TrimEverywhere(s) == SelectSeq(s, LAMBDA c : c \notin Whitespace)

\* str::trim
Trim(s) == TrimEnd(TrimStart(s))

----------------------------------------------------------------------------
(* Nodes (scraper::Node as seen through NodeRef / ElementRef)              *)

Text(s) == [kind |-> "Text", text |-> s]

Comment(s) == [kind |-> "Comment", text |-> s]

Element(n, at, ch) == [kind |-> "Element", name |-> n, attrs |-> at, children |-> ch]

\* Mutant of node_type_name: a comment is named as an element.
NodeTypeNameOfTwo(node) == IF node.kind = "Text" THEN "Text" ELSE "Element"

\* node_type_name
node_type_name(node) ==
    CASE node.kind = "Text" -> "Text"
      [] node.kind = "Element" -> "Element"
      [] node.kind = "Comment" -> "Comment"

\* What {:?} prints of a node value: the node without its children.
NodeValue(node) ==
    IF node.kind = "Element" THEN <<"Element", node.name, node.attrs>>
    ELSE <<node.kind, node.text>>

----------------------------------------------------------------------------
(* Results.  A comparison returns Ok or Err(NodeMismatch(message)); the    *)
(* message is kept as the tuple of the pieces format! puts together.  log  *)
(* is the sequence of checks the comparison performed, each <<path, what>> *)
(* with path the child indices leading from the root to the place.         *)

Ok == <<"Ok">>

NodeMismatch(msg) == <<"NodeMismatch", msg>>

IsOk(r) == r[1] = "Ok"

Out(r, l) == [res |-> r, log |-> l]

After(l, out) == [res |-> out.res, log |-> l \o out.log]

----------------------------------------------------------------------------
(* HtmlComparer                                                            *)

\* HtmlCompareOptions::default
DefaultOptions ==
    [ignore_whitespace |-> TRUE, ignore_attributes |-> FALSE,
     ignored_attributes |-> {}, ignore_text |-> FALSE,
     ignore_comments |-> TRUE, ignore_sibling_order |-> FALSE]

\* Mutant of should_include_node: comments are always included.
IncludeEveryComment(o, node) ==
    CASE node.kind = "Text" ->
            ~o.ignore_text /\ (~o.ignore_whitespace \/ Trim(node.text) # <<>>)
      [] OTHER -> TRUE

\* should_include_node
should_include_node(o, node) ==
    CASE node.kind = "Text" ->
            ~o.ignore_text /\ (~o.ignore_whitespace \/ Trim(node.text) # <<>>)
      [] node.kind = "Comment" -> ~o.ignore_comments
      [] OTHER -> TRUE

\* children().filter(|n| self.should_include_node(n)).collect()
RECURSIVE FilterChildren(_, _)
FilterChildren(o, ch) ==
    IF ch = <<>> THEN <<>>
    ELSE IF should_include_node(o, Head(ch))
         THEN <<Head(ch)>> \o FilterChildren(o, Tail(ch))
         ELSE FilterChildren(o, Tail(ch))

\* Mutant of CollectAttrs: the ignored names are not filtered out.
CollectEveryAttr(o, attrs) == {attrs[i] : i \in 1..Len(attrs)}

\* attrs().filter(|(name, _)| !ignored_attributes.contains(name)).collect::<HashSet>()
CollectAttrs(o, attrs) ==
    {attrs[i] : i \in {j \in 1..Len(attrs) : attrs[j][1] \notin o.ignored_attributes}}

\* compare_attributes
compare_attributes(o, e, a, path) ==
    LET expected_attrs == CollectAttrs(o, e.attrs)
        actual_attrs == CollectAttrs(o, a.attrs)
    IN  IF expected_attrs # actual_attrs
        THEN Out(NodeMismatch(<<"Attributes mismatch", expected_attrs, actual_attrs>>),
                 <<<<path, "attrs">>>>)
        ELSE Out(Ok, <<<<path, "attrs">>>>)

\* The text comparison of compare_ordered_nodes
OrderedText(o, e, a, i, path) ==
    IF ~o.ignore_text
    THEN LET expected_str == IF o.ignore_whitespace THEN Trim(e.text) ELSE e.text
             actual_str == IF o.ignore_whitespace THEN Trim(a.text) ELSE a.text
         IN  IF expected_str # actual_str
             THEN Out(NodeMismatch(<<"Text content mismatch at position", i,
                                     expected_str, actual_str>>),
                      <<<<Append(path, i), "text">>>>)
             ELSE Out(Ok, <<<<Append(path, i), "text">>>>)
    ELSE Out(Ok, <<>>)

\* Mutant of OrderedComment: the comments are compared untrimmed.
OrderedCommentRaw(o, e, a, i, path) ==
    IF ~o.ignore_comments
    THEN IF e.text # a.text
         THEN Out(NodeMismatch(<<"Comment content mismatch at position", i,
                                 e.text, a.text>>),
                  <<<<Append(path, i), "comment">>>>)
         ELSE Out(Ok, <<<<Append(path, i), "comment">>>>)
    ELSE Out(Ok, <<>>)

\* The comment comparison of compare_ordered_nodes
OrderedComment(o, e, a, i, path) ==
    IF ~o.ignore_comments
    THEN LET expected_comment == Trim(e.text)
             actual_comment == Trim(a.text)
         IN  IF expected_comment # actual_comment
             THEN Out(NodeMismatch(<<"Comment content mismatch at position", i,
                                     expected_comment, actual_comment>>),
                      <<<<Append(path, i), "comment">>>>)
             ELSE Out(Ok, <<<<Append(path, i), "comment">>>>)
    ELSE Out(Ok, <<>>)

\* Mutant of UnorderedTextMatch: the untrimmed comparison is left out.
UnorderedTextTrimmedOnly(o, e, a) ==
    \/ o.ignore_text
    \/ (o.ignore_whitespace /\ Trim(e.text) = Trim(a.text))

\* The text arm of compare_unordered_nodes
UnorderedTextMatch(o, e, a) ==
    \/ o.ignore_text
    \/ (~o.ignore_whitespace /\ e.text = a.text)
    \/ (o.ignore_whitespace /\ Trim(e.text) = Trim(a.text))

RECURSIVE compare_element_refs(_, _, _, _)
RECURSIVE OrderedLoop(_, _, _, _, _)
RECURSIVE ScanActual(_, _, _, _, _)
RECURSIVE UnorderedLoop(_, _, _, _, _, _)

\* Mutant of OrderedLoop: the loop goes on after a failing pair and returns
\* the report of the last failure.
RECURSIVE OrderedLoopToTheEnd(_, _, _, _, _)
OrderedLoopToTheEnd(o, e, a, i, path) ==
    IF i >= Len(e) \/ i >= Len(a) THEN Out(Ok, <<>>)
    ELSE LET ec == e[i + 1]
             ac == a[i + 1]
             one == CASE ec.kind = "Text" /\ ac.kind = "Text" ->
                            OrderedText(o, ec, ac, i, path)
                      [] ec.kind = "Comment" /\ ac.kind = "Comment" ->
                            OrderedComment(o, ec, ac, i, path)
                      [] ec.kind = "Element" /\ ac.kind = "Element" ->
                            compare_element_refs(o, ec, ac, Append(path, i))
                      [] OTHER ->
                            Out(NodeMismatch(<<"Node type mismatch at position", i,
                                               node_type_name(ec), node_type_name(ac)>>),
                                <<<<Append(path, i), "kind">>>>)
             rest == After(one.log, OrderedLoopToTheEnd(o, e, a, i + 1, path))
         IN  IF IsOk(rest.res) THEN [rest EXCEPT !.res = one.res] ELSE rest

\* for (i, (expected_child, actual_child)) in expected.iter().zip(actual.iter()).enumerate(),
\* from the pair at index i (0-based) on
OrderedLoop(o, e, a, i, path) ==
    IF i >= Len(e) \/ i >= Len(a) THEN Out(Ok, <<>>)
    ELSE LET ec == e[i + 1]
             ac == a[i + 1]
             one == CASE ec.kind = "Text" /\ ac.kind = "Text" ->
                            OrderedText(o, ec, ac, i, path)
                      [] ec.kind = "Comment" /\ ac.kind = "Comment" ->
                            OrderedComment(o, ec, ac, i, path)
                      [] ec.kind = "Element" /\ ac.kind = "Element" ->
                            compare_element_refs(o, ec, ac, Append(path, i))
                      [] OTHER ->
                            Out(NodeMismatch(<<"Node type mismatch at position", i,
                                               node_type_name(ec), node_type_name(ac)>>),
                                <<<<Append(path, i), "kind">>>>)
         IN  IF ~IsOk(one.res) THEN one
             ELSE After(one.log, OrderedLoop(o, e, a, i + 1, path))

\* compare_ordered_nodes
compare_ordered_nodes(o, e, a, path) ==
    IF Len(e) # Len(a)
    THEN Out(NodeMismatch(<<"Child count mismatch", Len(e), Len(a)>>),
             <<<<path, "count">>>>)
    ELSE After(<<<<path, "count">>>>, OrderedLoop(o, e, a, 0, path))

\* Mutant of UnorderedPair: kept comments are paired by their trimmed content.
UnorderedPairByContent(o, ec, ac) ==
    CASE ec.kind = "Text" /\ ac.kind = "Text" -> UnorderedTextMatch(o, ec, ac)
      [] ec.kind = "Element" /\ ac.kind = "Element" ->
            IsOk(compare_element_refs(o, ec, ac, <<>>).res)
      [] ec.kind = "Comment" /\ ac.kind = "Comment" ->
            o.ignore_comments \/ Trim(ec.text) = Trim(ac.text)
      [] OTHER -> FALSE

\* One candidate of the inner loop of compare_unordered_nodes: whether
\* expected_child and actual_child are paired.
UnorderedPair(o, ec, ac) ==
    CASE ec.kind = "Text" /\ ac.kind = "Text" -> UnorderedTextMatch(o, ec, ac)
      [] ec.kind = "Element" /\ ac.kind = "Element" ->
            IsOk(compare_element_refs(o, ec, ac, <<>>).res)
      [] ec.kind = "Comment" /\ ac.kind = "Comment" -> o.ignore_comments
      [] OTHER -> FALSE

\* Mutant of ScanActual: the scan does not look at the matched markers.
RECURSIVE ScanActualUnmarked(_, _, _, _, _)
ScanActualUnmarked(o, ec, a, matched, i) ==
    IF i >= Len(a) THEN -1
    ELSE IF UnorderedPair(o, ec, a[i + 1]) THEN i
    ELSE ScanActualUnmarked(o, ec, a, matched, i + 1)

\* Mutant of ScanActual: only the first unmatched actual child is tried.
RECURSIVE ScanFirstUnmatched(_, _, _, _, _)
ScanFirstUnmatched(o, ec, a, matched, i) ==
    IF i >= Len(a) THEN -1
    ELSE IF matched[i + 1] THEN ScanFirstUnmatched(o, ec, a, matched, i + 1)
    ELSE IF UnorderedPair(o, ec, a[i + 1]) THEN i
    ELSE -1

\* for (i, actual_child) in actual.iter().enumerate(), from index i on: the
\* index of the first unmatched actual child paired with ec, or -1 (found = false)
ScanActual(o, ec, a, matched, i) ==
    IF i >= Len(a) THEN -1
    ELSE IF ~matched[i + 1] /\ UnorderedPair(o, ec, a[i + 1]) THEN i
    ELSE ScanActual(o, ec, a, matched, i + 1)

\* Mutant of UnorderedLoop: when no partner is found for an element, the
\* report of its comparison with the first actual element is returned.
RECURSIVE UnorderedLoopNested(_, _, _, _, _, _)
UnorderedLoopNested(o, e, a, matched, k, path) ==
    IF k >= Len(e) THEN Out(Ok, <<>>)
    ELSE LET found == ScanActual(o, e[k + 1], a, matched, 0)
             els == {j \in 1..Len(a) : a[j].kind = "Element"}
         IN  IF found < 0
             THEN IF e[k + 1].kind = "Element" /\ els # {}
                  THEN compare_element_refs(o, e[k + 1],
                                            a[CHOOSE j \in els : \A m \in els : j <= m],
                                            Append(path, k))
                  ELSE Out(NodeMismatch(<<"No matching node found for",
                                          NodeValue(e[k + 1])>>),
                           <<<<Append(path, k), "nomatch">>>>)
             ELSE After(<<<<Append(path, k), "match">>>>,
                        UnorderedLoopNested(o, e, a, [matched EXCEPT ![found + 1] = TRUE],
                                            k + 1, path))

\* for expected_child in expected, from the k-th (0-based) on
UnorderedLoop(o, e, a, matched, k, path) ==
    IF k >= Len(e) THEN Out(Ok, <<>>)
    ELSE LET found == ScanActual(o, e[k + 1], a, matched, 0)
         IN  IF found < 0
             THEN Out(NodeMismatch(<<"No matching node found for", NodeValue(e[k + 1])>>),
                      <<<<Append(path, k), "nomatch">>>>)
             ELSE After(<<<<Append(path, k), "match">>>>,
                        UnorderedLoop(o, e, a, [matched EXCEPT ![found + 1] = TRUE],
                                      k + 1, path))

\* Mutant of compare_unordered_nodes: the children are paired by position.
UnorderedByPosition(o, e, a, path) == compare_ordered_nodes(o, e, a, path)

\* compare_unordered_nodes
compare_unordered_nodes(o, e, a, path) ==
    IF Len(e) # Len(a)
    THEN Out(NodeMismatch(<<"Child count mismatch", Len(e), Len(a)>>),
             <<<<path, "count">>>>)
    ELSE After(<<<<path, "count">>>>,
               UnorderedLoop(o, e, a, [i \in 1..Len(a) |-> FALSE], 0, path))

\* compare_element_refs
compare_element_refs(o, e, a, path) ==
    IF e.name # a.name
    THEN Out(NodeMismatch(<<"Tag name mismatch", e.name, a.name>>), <<<<path, "tag">>>>)
    ELSE LET at == IF ~o.ignore_attributes THEN compare_attributes(o, e, a, path)
                   ELSE Out(Ok, <<>>)
         IN  IF ~IsOk(at.res) THEN After(<<<<path, "tag">>>>, at)
             ELSE LET expected_children == FilterChildren(o, e.children)
                      actual_children == FilterChildren(o, a.children)
                  IN  After(<<<<path, "tag">>>> \o at.log,
                            IF o.ignore_sibling_order
                            THEN compare_unordered_nodes(o, expected_children,
                                                         actual_children, path)
                            ELSE compare_ordered_nodes(o, expected_children,
                                                       actual_children, path))

----------------------------------------------------------------------------
(* Debug formatting of a HashSet: its elements in the set's iteration      *)
(* order, which depends on the hasher keys of that HashSet instance and is *)
(* any order of the elements.                                              *)

DebugHashSet(S) ==
    {f \in [1..Cardinality(S) -> S] : \A i, j \in 1..Cardinality(S) : f[i] = f[j] => i = j}

\* The messages format! can produce for a result
Messages(r) ==
    IF IsOk(r) THEN {r}
    ELSE IF r[2][1] = "Attributes mismatch"
         THEN {NodeMismatch(<<"Attributes mismatch", x, y>>) :
                  x \in DebugHashSet(r[2][2]), y \in DebugHashSet(r[2][3])}
         ELSE {r}

\* Html::parse_document(..).root_element(): the html element, with its head
\* and the body holding the content
Document(content) ==
    Element("html", <<>>, <<Element("head", <<>>, <<>>), Element("body", <<>>, content)>>)

----------------------------------------------------------------------------
(* Inputs                                                                  *)

MaxNodes == 3

Booleans == {TRUE, FALSE}

Leaves == {Text(<<" ">>), Comment(<<"c">>)}

RECURSIVE NodesOfSize(_, _)
RECURSIVE ForestsOfSize(_, _)

\* The nodes with n nodes in all, over the leaves L and the element p
NodesOfSize(L, n) ==
    IF n = 1 THEN L \cup {Element("p", <<>>, <<>>)}
    ELSE {Element("p", <<>>, f) : f \in ForestsOfSize(L, n - 1)}

\* The child lists with n nodes in all
ForestsOfSize(L, n) ==
    IF n = 0 THEN {<<>>}
    ELSE UNION {{<<x>> \o f : x \in NodesOfSize(L, m), f \in ForestsOfSize(L, n - m)} :
                   m \in 1..n}

SeqsUpTo(S, n) == UNION {[1..k -> S] : k \in 0..n}

Contents == UNION {ForestsOfSize(Leaves, n) : n \in 0..MaxNodes}

Docs == {Document(c) : c \in Contents}

OptionSets ==
    [ignore_whitespace : Booleans, ignore_attributes : {FALSE},
     ignored_attributes : {{}}, ignore_text : Booleans,
     ignore_comments : Booleans, ignore_sibling_order : Booleans]

\* Documents with one element and its attributes.  The parser keeps one
\* value for each attribute name, so the names of a list are distinct.
MaxAttrs == 2

AttrNames == {"id", "class", "href"}

AttrValues == {"1", "2"}

AttrLists ==
    {at \in SeqsUpTo(AttrNames \X AttrValues, MaxAttrs) :
        \A i, j \in 1..Len(at) : at[i][1] = at[j][1] => i = j}

AttrDocs == {Document(<<Element("div", at, <<>>)>>) : at \in AttrLists}

AttrOptionSets ==
    [ignore_whitespace : {TRUE}, ignore_attributes : Booleans,
     ignored_attributes : {{}, {"id"}}, ignore_text : {FALSE},
     ignore_comments : {TRUE}, ignore_sibling_order : Booleans]

\* Documents with at most one text or comment, over all short strings.  The
\* parser makes no empty text node; a comment may be empty.
MaxTextLen == 4

Chars == {"a", " "}

TextStrings == SeqsUpTo(Chars, MaxTextLen) \ {<<>>}

CommentStrings == SeqsUpTo(Chars, MaxTextLen)

TextDocs ==
    {Document(<<>>)} \cup {Document(<<Text(s)>>) : s \in TextStrings}
    \cup {Document(<<Comment(s)>>) : s \in CommentStrings}

TextOptionSets ==
    [ignore_whitespace : Booleans, ignore_attributes : {FALSE},
     ignored_attributes : {{}}, ignore_text : Booleans,
     ignore_comments : Booleans, ignore_sibling_order : Booleans]

\* Documents for the ordered comparison: elements that differ in tag, in
\* attributes and in children, texts and a comment.
MaxKids == 2

MaxInnerKids == 1

OrderedLeaves == {Text(<<"a">>), Text(<<"b">>), Comment(<<"c">>)}

OrderedElements ==
    {Element("p", <<>>, ch) : ch \in SeqsUpTo(OrderedLeaves, MaxInnerKids)}
    \cup {Element("q", <<>>, <<>>), Element("p", <<<<"id", "1">>>>, <<>>)}

OrderedDocs ==
    {Document(c) : c \in SeqsUpTo(OrderedLeaves \cup OrderedElements, MaxKids)}

OrderedOptionSets ==
    [ignore_whitespace : {TRUE}, ignore_attributes : Booleans,
     ignored_attributes : {{}}, ignore_text : {FALSE},
     ignore_comments : Booleans, ignore_sibling_order : {FALSE}]

None == <<"None">>

----------------------------------------------------------------------------
(* The state machine: a comparer is constructed with its options and       *)
(* compare is called on a pair of parsed documents.                        *)

\* HtmlComparer::with_options, and the two documents of the call to come
Init ==
    /\ options \in OptionSets
    /\ expected \in Docs
    /\ actual \in Docs
    /\ result = None
    /\ previous = None
    /\ checks = <<>>
    /\ calls = <<>>

\* HtmlComparer::compare
Compare ==
    /\ result = None
    /\ LET out == compare_element_refs(options, expected, actual, <<>>)
       IN  /\ result' \in Messages(out.res)
           /\ checks' = out.log
    /\ UNCHANGED <<options, expected, actual, previous, calls>>

\* A second call of compare on the same comparer with the same two documents
CompareAgain ==
    /\ result # None
    /\ previous = None
    /\ LET out == compare_element_refs(options, expected, actual, <<>>)
       IN  /\ result' \in Messages(out.res)
           /\ checks' = out.log
    /\ previous' = result
    /\ UNCHANGED <<options, expected, actual, calls>>

Next == Compare

Spec == Init /\ [][Next]_vars

\* The comparisons of two elements with attributes
InitAttrs ==
    /\ options \in AttrOptionSets
    /\ expected \in AttrDocs
    /\ actual \in AttrDocs
    /\ result = None
    /\ previous = None
    /\ checks = <<>>
    /\ calls = <<>>

NextAttrs == Compare

SpecAttrs == InitAttrs /\ [][NextAttrs]_vars

\* The comparisons of two texts or comments
InitText ==
    /\ options \in TextOptionSets
    /\ expected \in TextDocs
    /\ actual \in TextDocs
    /\ result = None
    /\ previous = None
    /\ checks = <<>>
    /\ calls = <<>>

NextText == Compare

SpecText == InitText /\ [][NextText]_vars

\* The ordered comparisons
InitOrdered ==
    /\ options \in OrderedOptionSets
    /\ expected \in OrderedDocs
    /\ actual \in OrderedDocs
    /\ result = None
    /\ previous = None
    /\ checks = <<>>
    /\ calls = <<>>

NextOrdered == Compare

SpecOrdered == InitOrdered /\ [][NextOrdered]_vars

\* The same, with compare called twice
NextTwice == Compare \/ CompareAgain

SpecTwice == InitAttrs /\ [][NextTwice]_vars

----------------------------------------------------------------------------
(* Concurrent calls.  compare takes &self: several calls can run on the    *)
(* same comparer at once.  Each call has its own stack of invocations of   *)
(* compare_element_refs; an invocation (a frame) holds its two elements,   *)
(* the place it is at, the filtered child lists, the loop indices and, in  *)
(* unordered mode, its matched vector.  taken lists, for the expected      *)
(* children done so far, the actual index each of them has marked.         *)

MaxCalls == 2

Threads == 1..MaxCalls

P(ch) == Element("p", <<>>, ch)

CallTrees ==
    {Element("div", <<>>, ch) :
        ch \in {<<P(<<Text(<<"a">>)>>), P(<<Text(<<"b">>)>>)>>,
                <<P(<<Text(<<"b">>)>>), P(<<Text(<<"a">>)>>)>>,
                <<P(<<Text(<<"a">>)>>), P(<<Text(<<"a">>)>>)>>,
                <<Text(<<"a">>), P(<<Text(<<"b">>)>>)>>}}

CallOptionSets ==
    [ignore_whitespace : {TRUE}, ignore_attributes : {FALSE},
     ignored_attributes : {{}}, ignore_text : {FALSE},
     ignore_comments : {TRUE}, ignore_sibling_order : Booleans]

\* The invocation compare_element_refs(e, a) at its start
NewFrame(e, a) ==
    [e |-> e, a |-> a, pc |-> "tag", ec |-> <<>>, ac |-> <<>>,
     k |-> 0, i |-> 0, matched |-> <<>>, taken |-> <<>>]

\* A call compare(expected, actual) not yet started
NewCall(e, a) == [expected |-> e, actual |-> a, stack |-> <<>>, result |-> None]

Top(c) == c.stack[Len(c.stack)]

WithTop(c, f) == [c EXCEPT !.stack[Len(c.stack)] = f]

Push(c, f) == [c EXCEPT !.stack = Append(@, f)]

\* Mutant of NewMatched: the vector is the one another call is working on
\* (a marker array kept in the comparer and shared by the calls).
SharedMatched(cs, t, a) ==
    LET others == {u \in DOMAIN cs : /\ u # t
                                     /\ cs[u].stack # <<>>
                                     /\ Len(Top(cs[u]).matched) = Len(a)}
    IN  IF others = {} THEN [j \in 1..Len(a) |-> FALSE]
        ELSE Top(cs[CHOOSE u \in others : TRUE]).matched

\* let mut matched = vec![false; actual.len()], in call t among the calls cs
NewMatched(cs, t, a) == [j \in 1..Len(a) |-> FALSE]

\* matched[i] = true; found = true; break: on to the next expected child
Mark(f) ==
    [f EXCEPT !.matched[f.i + 1] = TRUE, !.taken = Append(@, f.i), !.k = @ + 1, !.i = 0]

\* Mutant of Return: in unordered mode the candidate is marked whatever its
\* comparison has returned.
RECURSIVE ReturnAndMark(_, _)
ReturnAndMark(c, r) ==
    LET n == Len(c.stack)
    IN  IF n = 1 THEN [c EXCEPT !.stack = <<>>, !.result = r]
        ELSE LET below == [c EXCEPT !.stack = SubSeq(c.stack, 1, n - 1)]
                 f == c.stack[n - 1]
             IN  IF options.ignore_sibling_order
                 THEN WithTop(below, Mark(f))
                 ELSE IF IsOk(r) THEN WithTop(below, [f EXCEPT !.i = @ + 1])
                      ELSE ReturnAndMark(below, r)

\* The top invocation of the call c returns r: to the caller of compare, or
\* to the invocation below.  In ordered mode an Err goes on with ?; in
\* unordered mode is_ok() decides whether the candidate is marked.
RECURSIVE Return(_, _)
Return(c, r) ==
    LET n == Len(c.stack)
    IN  IF n = 1 THEN [c EXCEPT !.stack = <<>>, !.result = r]
        ELSE LET below == [c EXCEPT !.stack = SubSeq(c.stack, 1, n - 1)]
                 f == c.stack[n - 1]
             IN  IF options.ignore_sibling_order
                 THEN WithTop(below, IF IsOk(r) THEN Mark(f) ELSE [f EXCEPT !.i = @ + 1])
                 ELSE IF IsOk(r) THEN WithTop(below, [f EXCEPT !.i = @ + 1])
                      ELSE Return(below, r)

Running(t) == calls[t].stack # <<>>

CallsOnly == UNCHANGED <<options, expected, actual, result, previous, checks>>

\* compare: the root elements are handed to compare_element_refs
Enter(t) ==
    /\ calls[t].stack = <<>>
    /\ calls[t].result = None
    /\ calls' = [calls EXCEPT ![t] = Push(@, NewFrame(@.expected, @.actual))]
    /\ CallsOnly

\* compare_element_refs: the tag names
CheckTag(t) ==
    /\ Running(t)
    /\ Top(calls[t]).pc = "tag"
    /\ LET c == calls[t]
           f == Top(c)
       IN  calls' = [calls EXCEPT ![t] =
                        IF f.e.name # f.a.name
                        THEN Return(c, NodeMismatch(<<"Tag name mismatch",
                                                      f.e.name, f.a.name>>))
                        ELSE WithTop(c, [f EXCEPT !.pc = "attrs"])]
    /\ CallsOnly

\* compare_element_refs: the attributes
CheckAttrs(t) ==
    /\ Running(t)
    /\ Top(calls[t]).pc = "attrs"
    /\ LET c == calls[t]
           f == Top(c)
           at == IF ~options.ignore_attributes
                 THEN compare_attributes(options, f.e, f.a, <<>>).res ELSE Ok
       IN  \E r \in Messages(at) :
              calls' = [calls EXCEPT ![t] =
                           IF ~IsOk(r) THEN Return(c, r)
                           ELSE WithTop(c, [f EXCEPT !.pc = "children"])]
    /\ CallsOnly

\* compare_element_refs: the two filtered child lists
CollectChildren(t) ==
    /\ Running(t)
    /\ Top(calls[t]).pc = "children"
    /\ LET c == calls[t]
           f == Top(c)
       IN  calls' = [calls EXCEPT ![t] =
                        WithTop(c, [f EXCEPT !.ec = FilterChildren(options, f.e.children),
                                             !.ac = FilterChildren(options, f.a.children),
                                             !.pc = "count"])]
    /\ CallsOnly

\* compare_ordered_nodes / compare_unordered_nodes: the count check, and matched
CheckCount(t) ==
    /\ Running(t)
    /\ Top(calls[t]).pc = "count"
    /\ LET c == calls[t]
           f == Top(c)
       IN  calls' = [calls EXCEPT ![t] =
                        IF Len(f.ec) # Len(f.ac)
                        THEN Return(c, NodeMismatch(<<"Child count mismatch",
                                                      Len(f.ec), Len(f.ac)>>))
                        ELSE WithTop(c, [f EXCEPT
                                 !.matched = IF options.ignore_sibling_order
                                             THEN NewMatched(calls, t, f.ac) ELSE <<>>,
                                 !.pc = "loop"])]
    /\ CallsOnly

\* compare_ordered_nodes: one turn of the for loop over the zipped children
OrderedStep(t) ==
    /\ Running(t)
    /\ Top(calls[t]).pc = "loop"
    /\ ~options.ignore_sibling_order
    /\ LET c == calls[t]
           f == Top(c)
           x == f.ec[f.i + 1]
           y == f.ac[f.i + 1]
           on == WithTop(c, [f EXCEPT !.i = @ + 1])
           txt == OrderedText(options, x, y, f.i, <<>>).res
           cmt == OrderedComment(options, x, y, f.i, <<>>).res
       IN  calls' = [calls EXCEPT ![t] =
                        IF f.i >= Len(f.ec) THEN Return(c, Ok)
                        ELSE CASE x.kind = "Text" /\ y.kind = "Text" ->
                                     IF IsOk(txt) THEN on ELSE Return(c, txt)
                               [] x.kind = "Comment" /\ y.kind = "Comment" ->
                                     IF IsOk(cmt) THEN on ELSE Return(c, cmt)
                               [] x.kind = "Element" /\ y.kind = "Element" ->
                                     Push(c, NewFrame(x, y))
                               [] OTHER ->
                                     Return(c, NodeMismatch(
                                         <<"Node type mismatch at position", f.i,
                                           node_type_name(x), node_type_name(y)>>))]
    /\ CallsOnly

\* compare_unordered_nodes: one turn of the inner for loop over the actual
\* children (or the end of it, or the end of the outer loop)
UnorderedStep(t) ==
    /\ Running(t)
    /\ Top(calls[t]).pc = "loop"
    /\ options.ignore_sibling_order
    /\ LET c == calls[t]
           f == Top(c)
           x == f.ec[f.k + 1]
           y == f.ac[f.i + 1]
           on == WithTop(c, [f EXCEPT !.i = @ + 1])
       IN  calls' = [calls EXCEPT ![t] =
                        IF f.k >= Len(f.ec) THEN Return(c, Ok)
                        ELSE IF f.i >= Len(f.ac)
                        THEN Return(c, NodeMismatch(<<"No matching node found for",
                                                      NodeValue(x)>>))
                        ELSE IF f.matched[f.i + 1] THEN on
                        ELSE CASE x.kind = "Text" /\ y.kind = "Text" ->
                                     IF UnorderedTextMatch(options, x, y)
                                     THEN WithTop(c, Mark(f)) ELSE on
                               [] x.kind = "Element" /\ y.kind = "Element" ->
                                     Push(c, NewFrame(x, y))
                               [] x.kind = "Comment" /\ y.kind = "Comment" ->
                                     IF options.ignore_comments
                                     THEN WithTop(c, Mark(f)) ELSE on
                               [] OTHER -> on]
    /\ CallsOnly

\* One comparer and the calls of compare about to run on it
InitCalls ==
    /\ options \in CallOptionSets
    /\ calls \in [Threads -> {NewCall(e, a) : e \in CallTrees, a \in CallTrees}]
    /\ expected = None
    /\ actual = None
    /\ result = None
    /\ previous = None
    /\ checks = <<>>

NextCalls ==
    \E t \in Threads :
        \/ Enter(t)
        \/ CheckTag(t)
        \/ CheckAttrs(t)
        \/ CollectChildren(t)
        \/ CheckCount(t)
        \/ OrderedStep(t)
        \/ UnorderedStep(t)

SpecCalls == InitCalls /\ [][NextCalls]_vars

----------------------------------------------------------------------------
(* Properties                                                              *)

Called == result # None

\* The verdict of compare(e, a) under the options o
Succeeds(o, e, a) == IsOk(compare_element_refs(o, e, a, <<>>).res)

\* The body's children of a document
Content(doc) == doc.children[2].children

HasComment(ch) == \E i \in 1..Len(ch) : ch[i].kind = "Comment"

(* C1: reflexivity.  For every document t and every combination of the     *)
(* options, compare(t, t) succeeds.                                        *)
C1_Reflexivity == (Called /\ expected = actual) => IsOk(result)

(* C2: symmetry of the verdict.  For every pair of documents and every     *)
(* options value, compare(a, b) succeeds if and only if compare(b, a)      *)
(* succeeds, in ordered and in unordered mode.                             *)
C2_Symmetry == Called => (IsOk(result) <=> Succeeds(options, actual, expected))

\* C2's case: an unordered comparison of two different documents, each with
\* two comparable children, has succeeded.
C2_Witness ==
    /\ Called
    /\ options.ignore_sibling_order
    /\ IsOk(result)
    /\ Len(FilterChildren(options, Content(expected))) = 2
    /\ FilterChildren(options, Content(expected)) # FilterChildren(options, Content(actual))

\* s with its elements at i and i + 1 exchanged
SwapAt(s, i) == [s EXCEPT ![i] = s[i + 1], ![i + 1] = s[i]]

\* The nodes obtained from node by exchanging two adjacent children of one
\* element of it, at any depth
RECURSIVE Rearranged(_)
Rearranged(node) ==
    IF node.kind # "Element" THEN {}
    ELSE LET ch == node.children
         IN  {[node EXCEPT !.children = SwapAt(ch, i)] : i \in 1..(Len(ch) - 1)}
             \cup UNION {{[node EXCEPT !.children[i] = n] : n \in Rearranged(ch[i])} :
                            i \in 1..Len(ch)}

\* The documents obtained from doc by one such exchange below its body
RearrangedDoc(doc) ==
    {[doc EXCEPT !.children[2] = b] : b \in Rearranged(doc.children[2])}

(* C3: with ignore_sibling_order = true the children are compared as a     *)
(* multiset: exchanging two adjacent children of any element of either     *)
(* document, at any depth, does not change the verdict.  Every permutation *)
(* is a product of such exchanges and the documents are closed under them, *)
(* so the verdict is the same for every permutation of the children.       *)
C3_PermutationInvariant ==
    (Called /\ options.ignore_sibling_order) =>
        /\ \A e \in RearrangedDoc(expected) :
              Succeeds(options, e, actual) <=> IsOk(result)
        /\ \A a \in RearrangedDoc(actual) :
              Succeeds(options, expected, a) <=> IsOk(result)

\* C3's case: an ordered comparison has succeeded, and exchanging two
\* children of an element inside the actual body makes the ordered
\* comparison fail while the unordered one still succeeds.
C3_Witness ==
    /\ Called
    /\ ~options.ignore_sibling_order
    /\ IsOk(result)
    /\ \E i \in 1..Len(Content(actual)) :
          \E n \in Rearranged(Content(actual)[i]) :
             LET a == [actual EXCEPT !.children[2].children[i] = n]
             IN  /\ ~Succeeds(options, expected, a)
                 /\ Succeeds([options EXCEPT !.ignore_sibling_order = TRUE], expected, a)

\* s with x put before its element at i + 1 (at the end when i = Len(s))
InsertAt(s, i, x) == SubSeq(s, 1, i) \o <<x>> \o SubSeq(s, i + 1, Len(s))

\* s without its element at i
RemoveAt(s, i) == SubSeq(s, 1, i - 1) \o SubSeq(s, i + 1, Len(s))

\* C5's excluded nodes: any text node when ignore_text, a whitespace-only
\* text node when ignore_whitespace, any comment when ignore_comments
Excluded(o, n) ==
    \/ n.kind = "Text" /\ o.ignore_text
    \/ n.kind = "Text" /\ o.ignore_whitespace
          /\ \A i \in 1..Len(n.text) : n.text[i] \in Whitespace
    \/ n.kind = "Comment" /\ o.ignore_comments

ExcludedNodes(o) == {n \in Leaves : Excluded(o, n)}

\* The nodes obtained from node by inserting, removing or changing one
\* excluded node among the children of one element of it, at any depth
RECURSIVE ExcludedEdits(_, _)
ExcludedEdits(o, node) ==
    IF node.kind # "Element" THEN {}
    ELSE LET ch == node.children
             out == {i \in 1..Len(ch) : Excluded(o, ch[i])}
         IN  {[node EXCEPT !.children = InsertAt(ch, i, x)] :
                 i \in 0..Len(ch), x \in ExcludedNodes(o)}
             \cup {[node EXCEPT !.children = RemoveAt(ch, i)] : i \in out}
             \cup {[node EXCEPT !.children[i] = x] : i \in out, x \in ExcludedNodes(o)}
             \cup UNION {{[node EXCEPT !.children[i] = n] : n \in ExcludedEdits(o, ch[i])} :
                            i \in 1..Len(ch)}

(* C5: excluded nodes never take part in the comparison.  Inserting,       *)
(* removing or changing, in either document and at any depth, a node the   *)
(* inclusion predicate rejects leaves the whole result as it is: the       *)
(* verdict and, on failure, the report with its counts and its position.   *)
C5_ExcludedNodesIgnored ==
    Called =>
        /\ \A b \in ExcludedEdits(options, expected.children[2]) :
              result \in Messages(compare_element_refs(
                  options, [expected EXCEPT !.children[2] = b], actual, <<>>).res)
        /\ \A b \in ExcludedEdits(options, actual.children[2]) :
              result \in Messages(compare_element_refs(
                  options, expected, [actual EXCEPT !.children[2] = b], <<>>).res)

\* C5's case: a comparison has failed with a report carrying position 1
\* while the expected body starts with an excluded node.
C5_Witness ==
    /\ Called
    /\ ~IsOk(result)
    /\ Len(result[2]) = 4
    /\ result[2][2] = 1
    /\ Len(Content(expected)) = 3
    /\ Excluded(options, Content(expected)[1])
    /\ ~Excluded(options, Content(expected)[2])

\* The one element of the body of an attribute document, and its attributes
ElementOf(doc) == Content(doc)[1]

AttrsOf(doc) == ElementOf(doc).attrs

\* C4's set of an attribute list: its (name, value) pairs without those whose
\* name is in ignored_attributes
KeptPairs(o, at) == {pr \in {at[i] : i \in 1..Len(at)} : pr[1] \notin o.ignored_attributes}

\* The attribute lists that differ from at in what C4 says is irrelevant: the
\* order, a pair written twice, and the attributes with an ignored name
\* (one more, one less, another value)
AttrVariants(o, at) ==
    {SwapAt(at, i) : i \in 1..(Len(at) - 1)}
    \cup {InsertAt(at, i, at[j]) : i \in 0..Len(at), j \in 1..Len(at)}
    \cup {InsertAt(at, i, <<n, v>>) :
             i \in 0..Len(at), n \in o.ignored_attributes, v \in AttrValues}
    \cup {RemoveAt(at, i) : i \in {j \in 1..Len(at) : at[j][1] \in o.ignored_attributes}}
    \cup {[at EXCEPT ![i] = <<at[i][1], v>>] :
             i \in {j \in 1..Len(at) : at[j][1] \in o.ignored_attributes}, v \in AttrValues}

WithAttrs(doc, at) == [ElementOf(doc) EXCEPT !.attrs = at]

(* C4: the attribute step.  Two elements of the same tag pass it if and     *)
(* only if ignore_attributes is true or their sets of (name, value) pairs, *)
(* the ignored names removed, are equal; the order of the attributes, a    *)
(* pair written twice and the attributes with an ignored name do not       *)
(* change the verdict.  (The elements have no children, so compare         *)
(* succeeds exactly when the attribute step passes.)                       *)
C4_AttributeStep ==
    Called =>
        /\ IsOk(result) <=>
              \/ options.ignore_attributes
              \/ KeptPairs(options, AttrsOf(expected)) = KeptPairs(options, AttrsOf(actual))
        /\ \A at \in AttrVariants(options, AttrsOf(expected)) :
              Succeeds(options, WithAttrs(expected, at), ElementOf(actual)) <=> IsOk(result)
        /\ \A at \in AttrVariants(options, AttrsOf(actual)) :
              Succeeds(options, ElementOf(expected), WithAttrs(actual, at)) <=> IsOk(result)

\* C4's case: with attributes compared and id ignored, two elements whose
\* attributes come in a different order and differ in the value of id pass.
C4_Witness ==
    /\ Called
    /\ IsOk(result)
    /\ ~options.ignore_attributes
    /\ options.ignored_attributes = {"id"}
    /\ Len(AttrsOf(expected)) = 2
    /\ Len(AttrsOf(actual)) = 2
    /\ AttrsOf(expected)[1][1] = "id"
    /\ AttrsOf(actual)[2][1] = "id"
    /\ AttrsOf(expected)[1][2] # AttrsOf(actual)[2][2]

(* C8: determinism of the report.  Calling compare twice with the same two *)
(* inputs and the same options gives the same verdict and, on failure, the *)
(* same report, attribute-set reports of two or more pairs included.       *)
C8_SameReport == previous # None => result = previous

\* s from its first to its last character that is not whitespace
Strip(s) ==
    LET in == {i \in 1..Len(s) : s[i] \notin Whitespace}
    IN  IF in = {} THEN <<>>
        ELSE SubSeq(s, CHOOSE i \in in : \A j \in in : i <= j,
                       CHOOSE i \in in : \A j \in in : j <= i)

\* Both bodies hold one node of the kind k, and the comparison pairs them
PairOf(k) ==
    /\ Len(Content(expected)) = 1
    /\ Len(Content(actual)) = 1
    /\ Content(expected)[1].kind = k
    /\ Content(actual)[1].kind = k
    /\ ~Excluded(options, Content(expected)[1])
    /\ ~Excluded(options, Content(actual)[1])

ExpectedString == Content(expected)[1].text

ActualString == Content(actual)[1].text

C7_OrderedComments ==
    (Called /\ ~options.ignore_sibling_order /\ ~options.ignore_comments) =>
        /\ PairOf("Comment") =>
              /\ IsOk(result) <=> Strip(ExpectedString) = Strip(ActualString)
              /\ ~IsOk(result) =>
                    result = NodeMismatch(<<"Comment content mismatch at position", 0,
                                            Strip(ExpectedString), Strip(ActualString)>>)
        /\ expected = actual =>
              LET n == Cardinality({i \in 1..Len(Content(actual)) :
                                       ~Excluded(options, Content(actual)[i])})
              IN  \A c \in CommentStrings : \A i \in 0..Len(Content(actual)) :
                     LET with == [actual EXCEPT !.children[2].children =
                                     InsertAt(Content(actual), i, Comment(c))]
                     IN  /\ compare_element_refs(options, with, actual, <<>>).res
                            = NodeMismatch(<<"Child count mismatch", n + 1, n>>)
                         /\ compare_element_refs(options, actual, with, <<>>).res
                            = NodeMismatch(<<"Child count mismatch", n, n + 1>>)
        /\ (Len(Content(expected)) = 1 /\ Content(expected)[1].kind = "Comment"
               /\ Content(actual) = <<>>) =>
              result = NodeMismatch(<<"Child count mismatch", 1, 0>>)
        /\ (Len(Content(actual)) = 1 /\ Content(actual)[1].kind = "Comment"
               /\ Content(expected) = <<>>) =>
              result = NodeMismatch(<<"Child count mismatch", 0, 1>>)

\* C7's case: two comments that differ only in the whitespace around their
\* content have been compared, comments kept, and are equal.
C7_Witness ==
    /\ Called
    /\ ~options.ignore_sibling_order
    /\ ~options.ignore_comments
    /\ PairOf("Comment")
    /\ ExpectedString # ActualString
    /\ Strip(ExpectedString) # <<>>
    /\ IsOk(result)

\* The comparable children of a child list: those not excluded
Comparable(o, ch) == SelectSeq(ch, LAMBDA n : ~Excluded(o, n))

SameKind(x, y) == x.kind = y.kind

\* One check: the place it is made at (the path of child indices and what is
\* checked there) and the report it gives when made
Check(path, what, res) == [at |-> <<path, what>>, res |-> res]

RECURSIVE AllChecks(_, _, _, _)
RECURSIVE ChildChecks(_, _, _, _, _)

(* Every check of C9's order on the element pair (e, a), failing or not:   *)
(* the tag name, the attributes (unless ignore_attributes), the count of   *)
(* comparable children, then the child pairs by increasing index, an       *)
(* element pair being followed at once by all the checks inside it.        *)
AllChecks(o, e, a, path) ==
    LET ec == Comparable(o, e.children)
        ac == Comparable(o, a.children)
    IN  <<Check(path, "tag",
                IF e.name = a.name THEN Ok
                ELSE NodeMismatch(<<"Tag name mismatch", e.name, a.name>>))>>
        \o (IF o.ignore_attributes THEN <<>>
            ELSE <<Check(path, "attrs",
                         IF KeptPairs(o, e.attrs) = KeptPairs(o, a.attrs) THEN Ok
                         ELSE NodeMismatch(<<"Attributes mismatch", KeptPairs(o, e.attrs),
                                             KeptPairs(o, a.attrs)>>))>>)
        \o <<Check(path, "count",
                   IF Len(ec) = Len(ac) THEN Ok
                   ELSE NodeMismatch(<<"Child count mismatch", Len(ec), Len(ac)>>))>>
        \o ChildChecks(o, ec, ac, 0, path)

ChildChecks(o, ec, ac, i, path) ==
    IF i >= Len(ec) \/ i >= Len(ac) THEN <<>>
    ELSE LET x == ec[i + 1]
             y == ac[i + 1]
             s == IF o.ignore_whitespace THEN Strip(x.text) ELSE x.text
             t == IF o.ignore_whitespace THEN Strip(y.text) ELSE y.text
         IN  (CASE x.kind = "Element" /\ y.kind = "Element" ->
                      AllChecks(o, x, y, Append(path, i))
                [] x.kind = "Text" /\ y.kind = "Text" ->
                      <<Check(Append(path, i), "text",
                              IF s = t THEN Ok
                              ELSE NodeMismatch(<<"Text content mismatch at position",
                                                  i, s, t>>))>>
                [] x.kind = "Comment" /\ y.kind = "Comment" ->
                      <<Check(Append(path, i), "comment",
                              IF Strip(x.text) = Strip(y.text) THEN Ok
                              ELSE NodeMismatch(<<"Comment content mismatch at position",
                                                  i, Strip(x.text), Strip(y.text)>>))>>
                [] OTHER ->
                      <<Check(Append(path, i), "kind",
                              NodeMismatch(<<"Node type mismatch at position", i,
                                             x.kind, y.kind>>))>>)
             \o ChildChecks(o, ec, ac, i + 1, path)

(* C9: fail-fast order of the checks with ignore_sibling_order = false.    *)
(* The checks compare makes are the checks of that order up to and         *)
(* including the first one that fails, and no check after it; the report   *)
(* returned is the report of that first failing check, the report of a     *)
(* nested element unchanged; compare succeeds when no check fails.         *)
C9_FailFastOrder ==
    (Called /\ ~options.ignore_sibling_order) =>
        LET all == AllChecks(options, expected, actual, <<>>)
            bad == {k \in 1..Len(all) : ~IsOk(all[k].res)}
            last == IF bad = {} THEN Len(all) ELSE CHOOSE k \in bad : \A j \in bad : k <= j
        IN  /\ Len(checks) = last
            /\ \A k \in 1..last : checks[k] = all[k].at
            /\ IF bad = {} THEN result = Ok ELSE result \in Messages(all[last].res)

\* C9's case: the first child pair fails inside (the texts of two nested
\* elements differ) and the second child pair differs too; the report is the
\* nested one and the second pair has not been checked.
C9_Witness ==
    /\ Called
    /\ ~options.ignore_sibling_order
    /\ Len(Content(expected)) = 2
    /\ Len(Content(actual)) = 2
    /\ Content(expected)[2].kind = "Text"
    /\ Content(actual)[2].kind = "Text"
    /\ Content(expected)[2] # Content(actual)[2]
    /\ checks[Len(checks)] = <<<<1, 0, 0>>, "text">>
    /\ result = NodeMismatch(<<"Text content mismatch at position", 0, <<"a">>, <<"b">>>>)

(* C10: node-kind mismatch in ordered mode.  Whenever the comparison comes *)
(* to the comparable children at the same index i of a pair of elements    *)
(* (the checks before them having passed) and they are not both text, both *)
(* comment or both element, it fails with a node-kind mismatch report that *)
(* carries i, the index among the comparable children, and the kind names  *)
(* of both sides, expected first.                                          *)
RECURSIVE KindRule(_, _, _, _)
KindRule(o, e, a, r) ==
    LET ec == Comparable(o, e.children)
        ac == Comparable(o, a.children)
    IN  (/\ e.name = a.name
         /\ o.ignore_attributes \/ KeptPairs(o, e.attrs) = KeptPairs(o, a.attrs)
         /\ Len(ec) = Len(ac)) =>
            \A i \in 1..Len(ec) :
               (\A j \in 1..(i - 1) :
                   IsOk(compare_ordered_nodes(o, <<ec[j]>>, <<ac[j]>>, <<>>).res)) =>
                  IF ec[i].kind # ac[i].kind
                  THEN r = NodeMismatch(<<"Node type mismatch at position", i - 1,
                                          ec[i].kind, ac[i].kind>>)
                  ELSE ec[i].kind = "Element" => KindRule(o, ec[i], ac[i], r)

C10_KindMismatch ==
    (Called /\ ~options.ignore_sibling_order) =>
        KindRule(options, expected, actual, result)

\* C10's case: with comments ignored the expected body is a comment and a
\* text, the actual body an element, and the report carries position 0.
C10_Witness ==
    /\ Called
    /\ ~options.ignore_sibling_order
    /\ options.ignore_comments
    /\ Len(Content(expected)) = 2
    /\ Content(expected)[1].kind = "Comment"
    /\ result = NodeMismatch(<<"Node type mismatch at position", 0, "Text", "Element">>)

\* s has a character that is not whitespace
HasInk(s) == \E i \in 1..Len(s) : s[i] \notin Whitespace

(* C11: the documented meaning of ignore_whitespace = false.  The flag     *)
(* only decides whether whitespace-only text nodes are comparable          *)
(* children; for two text nodes that both hold a character that is not     *)
(* whitespace, the outcome of comparing them is the same with              *)
(* ignore_whitespace = false as with ignore_whitespace = true.             *)
C11_FlagKeepsTextOutcome ==
    (/\ Called
     /\ Len(Content(expected)) = 1
     /\ Len(Content(actual)) = 1
     /\ Content(expected)[1].kind = "Text"
     /\ Content(actual)[1].kind = "Text"
     /\ HasInk(ExpectedString)
     /\ HasInk(ActualString)) =>
        (IsOk(result) <=>
            Succeeds([options EXCEPT !.ignore_whitespace = ~options.ignore_whitespace],
                     expected, actual))

\* C12's pairwise matching rule: two texts are paired when they are equal
\* (trimmed under ignore_whitespace), two elements when their recursive
\* comparison succeeds, and nothing else is
PairRule(o, x, y) ==
    CASE x.kind = "Text" /\ y.kind = "Text" ->
            IF o.ignore_whitespace THEN Strip(x.text) = Strip(y.text) ELSE x.text = y.text
      [] x.kind = "Element" /\ y.kind = "Element" -> Succeeds(o, x, y)
      [] OTHER -> FALSE

Bijections(n) == {f \in [1..n -> 1..n] : \A i, j \in 1..n : f[i] = f[j] => i = j}

\* The lists e and a have the same length and a perfect matching under the rule
PerfectMatching(o, e, a) ==
    /\ Len(e) = Len(a)
    /\ \E f \in Bijections(Len(e)) : \A i \in 1..Len(e) : PairRule(o, e[i], a[f[i]])

\* The unordered comparison of the lists e and a reports no-match-found
NoMatchFound(o, e, a) ==
    LET r == compare_unordered_nodes(o, e, a, <<>>).res
    IN  ~IsOk(r) /\ r[2][1] = "No matching node found for"

(* C12 as stated: greedy first-fit matching is incomplete.  Under the      *)
(* comparer's options, with ignore_sibling_order = true, there are two     *)
(* lists of comparable children of equal length that have a perfect        *)
(* matching under the pairwise rule while the unordered comparison reports *)
(* no-match-found.                                                         *)
C12_GreedyIncomplete ==
    LET o == [options EXCEPT !.ignore_sibling_order = TRUE]
    IN  \E e \in Contents : \E a \in Contents :
           /\ PerfectMatching(o, Comparable(o, e), Comparable(o, a))
           /\ NoMatchFound(o, Comparable(o, e), Comparable(o, a))

(* C12 amended: greedy first-fit matching finds every perfect matching.    *)
(* Whenever the two lists of comparable children have equal length and a   *)
(* perfect matching under the pairwise rule, the unordered comparison      *)
(* succeeds.                                                               *)
C12_GreedyComplete ==
    (Called /\ options.ignore_sibling_order) =>
        (PerfectMatching(options, Comparable(options, Content(expected)),
                         Comparable(options, Content(actual)))
            => IsOk(result))

\* C12's case: the first expected child is not paired with the first actual
\* child, so first-fit has to pass over a candidate, and a perfect matching
\* exists.
C12_Witness ==
    /\ Called
    /\ options.ignore_sibling_order
    /\ IsOk(result)
    /\ Len(Comparable(options, Content(expected))) >= 2
    /\ PerfectMatching(options, Comparable(options, Content(expected)),
                       Comparable(options, Content(actual)))
    /\ ~PairRule(options, Comparable(options, Content(expected))[1],
                 Comparable(options, Content(actual))[1])

\* node is an element with a comment among its children, at any depth
RECURSIVE CommentInside(_)
CommentInside(node) ==
    /\ node.kind = "Element"
    /\ \E i \in 1..Len(node.children) :
          node.children[i].kind = "Comment" \/ CommentInside(node.children[i])

\* node without the comments inside it
RECURSIVE WithoutComments(_)
RECURSIVE WithoutCommentsIn(_)
WithoutComments(node) ==
    IF node.kind # "Element" THEN node
    ELSE [node EXCEPT !.children = WithoutCommentsIn(node.children)]

WithoutCommentsIn(ch) ==
    IF ch = <<>> THEN <<>>
    ELSE IF Head(ch).kind = "Comment" THEN WithoutCommentsIn(Tail(ch))
    ELSE <<WithoutComments(Head(ch))>> \o WithoutCommentsIn(Tail(ch))

(* C13: comments in unordered mode.  With ignore_sibling_order = true and  *)
(* ignore_comments = false an expected comment is matched to no actual     *)
(* child, so a comparison whose expected side has a comment among the      *)
(* children of an element never succeeds, two identical documents          *)
(* included; with ignore_comments = true the comments are filtered out     *)
(* before the matching and the result is the result of comparing the       *)
(* documents without their comments.                                       *)
C13_UnorderedComments ==
    (Called /\ options.ignore_sibling_order) =>
        /\ (~options.ignore_comments /\ CommentInside(expected)) => ~IsOk(result)
        /\ options.ignore_comments =>
              result \in Messages(compare_element_refs(
                  options, WithoutComments(expected), WithoutComments(actual), <<>>).res)

\* C13's case: two identical documents with a comment in the body have been
\* compared in unordered mode, comments kept, and no partner has been found
\* for the body.
C13_Witness ==
    /\ Called
    /\ options.ignore_sibling_order
    /\ ~options.ignore_comments
    /\ expected = actual
    /\ Len(Content(expected)) = 2
    /\ Content(expected)[1].kind = "Element"
    /\ Content(expected)[2].kind = "Comment"
    /\ result = NodeMismatch(<<"No matching node found for", <<"Element", "body", <<>>>>>>)

\* The call t has returned
Returned(t) == calls[t].result # None

(* C14: reentrancy.  No step of a comparison changes the options of the    *)
(* comparer or the documents of a call; every invocation of the unordered  *)
(* comparison, the recursive ones included, starts its scan with a matched *)
(* vector of its own, as long as its actual list and all false; and with   *)
(* the calls interleaved in any way each call returns the result it        *)
(* returns when run alone.                                                 *)
C14_Reentrant ==
    /\ [][/\ options' = options
          /\ \A t \in Threads : /\ calls'[t].expected = calls[t].expected
                                /\ calls'[t].actual = calls[t].actual]_vars
    /\ [](\A t \in Threads :
            /\ \A n \in 1..Len(calls[t].stack) :
                  LET f == calls[t].stack[n]
                  IN  (f.pc = "loop" /\ options.ignore_sibling_order) =>
                         /\ Len(f.matched) = Len(f.ac)
                         /\ (f.k = 0 => \A j \in 1..Len(f.matched) : ~f.matched[j])
            /\ Returned(t) =>
                  calls[t].result \in Messages(compare_element_refs(
                      options, calls[t].expected, calls[t].actual, <<>>).res))

\* C14's case: one call has returned Ok from an unordered comparison while
\* another call is in the middle of its scan with a child marked.
C14_Witness ==
    /\ calls # <<>>
    /\ options.ignore_sibling_order
    /\ calls[1].result = Ok
    /\ calls[1].expected # calls[1].actual
    /\ Len(calls[2].stack) = 1
    /\ Top(calls[2]).pc = "loop"
    /\ Top(calls[2]).k = 1

\* r is a report made at the pair of elements (e, a) itself: a mismatch of
\* their tags, of their attribute sets or of their counts of comparable
\* children, or no match found for a comparable child of e
ReportAt(o, e, a, r) ==
    LET ec == Comparable(o, e.children)
        ac == Comparable(o, a.children)
    IN  /\ ~IsOk(r)
        /\ \/ /\ r[2][1] = "Tag name mismatch"
              /\ r = NodeMismatch(<<"Tag name mismatch", e.name, a.name>>)
           \/ /\ r[2][1] = "Attributes mismatch"
              /\ r \in Messages(NodeMismatch(<<"Attributes mismatch", KeptPairs(o, e.attrs),
                                               KeptPairs(o, a.attrs)>>))
           \/ /\ r[2][1] = "Child count mismatch"
              /\ r = NodeMismatch(<<"Child count mismatch", Len(ec), Len(ac)>>)
           \/ /\ r[2][1] = "No matching node found for"
              /\ \E i \in 1..Len(ec) :
                    /\ r[2][2][1] = ec[i].kind
                    /\ r = NodeMismatch(<<"No matching node found for",
                                          IF ec[i].kind = "Element"
                                          THEN <<"Element", ec[i].name, ec[i].attrs>>
                                          ELSE <<ec[i].kind, ec[i].text>>>>)

(* C15: in unordered mode the report of a nested mismatch is discarded.    *)
(* With ignore_sibling_order = true every failing compare returns a report *)
(* made at the pair of root elements: a tag, attribute-set or child-count  *)
(* mismatch of the two roots, or no-match-found naming a comparable child  *)
(* of the expected root; the last check made is at the roots or at a child *)
(* of the expected root, never inside a child element.                     *)
C15_RootReportOnly ==
    (Called /\ options.ignore_sibling_order /\ ~IsOk(result)) =>
        /\ ReportAt(options, expected, actual, result)
        /\ Len(checks[Len(checks)][1]) <= 1

\* C15's case: the two bodies hold one element each and these differ in
\* their number of children; the report names the body of the expected
\* document, not the count mismatch inside.
C15_Witness ==
    /\ Called
    /\ options.ignore_sibling_order
    /\ Len(Content(expected)) = 1
    /\ Len(Content(actual)) = 1
    /\ Content(expected)[1].kind = "Element"
    /\ Content(actual)[1].kind = "Element"
    /\ Len(Comparable(options, Content(expected)[1].children))
          # Len(Comparable(options, Content(actual)[1].children))
    /\ result = NodeMismatch(<<"No matching node found for", <<"Element", "body", <<>>>>>>)

(* C16: relaxing the sibling order never rejects what the ordered          *)
(* comparison accepts when comments are ignored.  For every pair of        *)
(* documents and every options value with ignore_comments = true, if       *)
(* compare succeeds with ignore_sibling_order = false, it succeeds with    *)
(* ignore_sibling_order = true and the other options unchanged.            *)
C16_OrderedImpliesUnordered ==
    (Called /\ ~options.ignore_sibling_order /\ options.ignore_comments /\ IsOk(result)) =>
        Succeeds([options EXCEPT !.ignore_sibling_order = TRUE], expected, actual)

\* C16's case: an ordered comparison with comments ignored has succeeded on
\* two documents that are not the same, each with a text and an element
\* among the comparable children of its body.
C16_Witness ==
    /\ Called
    /\ ~options.ignore_sibling_order
    /\ options.ignore_comments
    /\ IsOk(result)
    /\ expected # actual
    /\ Len(Comparable(options, Content(expected))) = 2
    /\ Comparable(options, Content(expected))[1].kind = "Text"
    /\ Comparable(options, Content(expected))[2].kind = "Element"

\* The frames of the calls that are in the scan of an unordered comparison
Scans ==
    {f \in UNION {{calls[t].stack[n] : n \in 1..Len(calls[t].stack)} : t \in DOMAIN calls} :
        f.pc = "loop"}

(* C17: the matched markers of the unordered comparison.  At every step of *)
(* a scan each actual child has been marked at most once, and only by an   *)
(* expected child that satisfies the pairing rule with it; the marked      *)
(* actual children are as many as the expected children done so far; an    *)
(* actual child that no expected child has taken, a candidate whose        *)
(* recursive comparison failed included, is unmarked; and when all         *)
(* expected children are done every actual child is marked, so the         *)
(* matching is a bijection.                                                *)
C17_MatchedMarkers ==
    options.ignore_sibling_order =>
        \A f \in Scans :
            LET marked == {j \in 1..Len(f.matched) : f.matched[j]}
            IN  /\ Len(f.taken) = f.k
                /\ \A m, n \in 1..Len(f.taken) : f.taken[m] = f.taken[n] => m = n
                /\ \A m \in 1..Len(f.taken) :
                      PairRule(options, f.ec[m], f.ac[f.taken[m] + 1])
                /\ marked = {f.taken[m] + 1 : m \in 1..Len(f.taken)}
                /\ Cardinality(marked) = f.k
                /\ f.k = Len(f.ec) => marked = 1..Len(f.ac)

\* C17's case: the first expected child has failed against the first actual
\* child and has marked the second, and the second expected child has then
\* marked the first.
C17_Witness ==
    /\ calls # <<>>
    /\ options.ignore_sibling_order
    /\ Len(calls[1].stack) = 1
    /\ Top(calls[1]).pc = "loop"
    /\ Top(calls[1]).taken = <<1, 0>>
    /\ ~PairRule(options, Top(calls[1]).ec[1], Top(calls[1]).ac[1])

====
